---- MODULE Spec2Model ----
(***************************************************************************)
(* A model of transient: the configuration resolver                        *)
(* (src/transient/configuration.py) and the VM session orchestrator        *)
(* (src/transient/transient.py).                                           *)
(*                                                                         *)
(* Python values are tagged records [t, v].  A Python string is a sequence *)
(* of tokens, so that replace, format, split and substring search are      *)
(* computed and not assumed.  A dict is a sequence of <<key, value>> pairs *)
(* with distinct keys, in insertion order.                                 *)
(***************************************************************************)
EXTENDS Integers, Sequences, FiniteSets, TLC

VARIABLES
    \* configuration resolver
    cli_args,       \* the CLI mapping handed to create_transient_run_config
    config_file,    \* the file behind cli_args["config"]: its lines and the
                    \* TOML document they parse to
    rpc,            \* position of the resolver's caller
    cli_input,      \* the CLI input as the user gave it
    first,          \* outcome of the first resolution
    second,         \* outcome of the second resolution
    logged,         \* the messages given to logging.error, in order
    config_without_unset_options,
                    \* what the pre-load hook returned to the validation of
                    \* the run configuration
    \* key normalisation
    dictionary,     \* the table given to the normaliser
    final_dict,     \* the table it returned
    \* VM session orchestrator (TransientVm)
    config,         \* self.config
    pc,             \* position inside TransientVm.run
    new_images,     \* the list __create_images is building
    vm_images,      \* self.vm_images
    ssh_config,     \* self.ssh_config
    qemu_runner,    \* self.qemu_runner
    added_qemu_args,\* run's local added_qemu_args
    returncode,     \* run's local returncode
    result,         \* what run returned
    calls           \* the calls made to the collaborators, in order

resolver_vars == <<cli_args, cli_input, config_file, rpc, first, second,
                   logged, config_without_unset_options>>
norm_vars     == <<dictionary, final_dict>>
vm_vars       == <<config, pc, new_images, vm_images, ssh_config, qemu_runner,
                   added_qemu_args, returncode, result, calls>>
vars          == <<resolver_vars, norm_vars, vm_vars>>

(***************************************************************************)
(* Bounds of the model.                                                    *)
(***************************************************************************)
MaxImages  == 2     \* longest image list
MaxShared  == 2     \* longest shared_folder list
MaxOptions == 1     \* options the user sets, on the CLI, in the file or both
MaxDepth   == 1     \* nesting depth of the tables given to the normaliser
MaxKeys    == 2     \* keys per table given to the normaliser
MaxExit    == 1     \* largest exit status of a process

(***************************************************************************)
(* Python values.                                                          *)
(***************************************************************************)
PyNone      == [t |-> "none", v |-> <<>>]
PyBool(b)   == [t |-> "bool", v |-> b]
PyInt(n)    == [t |-> "int", v |-> n]
PyStr(s)    == [t |-> "str", v |-> s]
PyList(e)   == [t |-> "list", v |-> e]
PyTuple(e)  == [t |-> "tuple", v |-> e]
PyDict(d)   == [t |-> "dict", v |-> d]
PyTrue      == PyBool(TRUE)
PyFalse     == PyBool(FALSE)

StrList(ss)  == PyList([i \in 1..Len(ss) |-> PyStr(ss[i])])
StrTuple(ss) == PyTuple([i \in 1..Len(ss) |-> PyStr(ss[i])])

Range(s) == {s[i] : i \in 1..Len(s)}

\* dict operations: key in d, d[key], d.get(key), d[key] = value
Keys(d)    == {d[i][1] : i \in 1..Len(d)}
Has(d, k)  == \E i \in 1..Len(d) : d[i][1] = k
Get(d, k)  == d[CHOOSE i \in 1..Len(d) : d[i][1] = k][2]
Put(d, k, val) ==
    IF Has(d, k)
    THEN [i \in 1..Len(d) |-> IF d[i][1] = k THEN <<k, val>> ELSE d[i]]
    ELSE Append(d, <<k, val>>)

\* str.replace(old, new) for one-token old and new
Replace(s, old, new) == [i \in 1..Len(s) |-> IF s[i] = old THEN new ELSE s[i]]

(***************************************************************************)
(* Option names.  The schema's names use underscores; the file's keys use  *)
(* hyphens.                                                                *)
(***************************************************************************)
image           == <<"image">>
image_backend   == <<"image", "_", "backend">>
image_frontend  == <<"image", "_", "frontend">>
name            == <<"name">>
config_opt      == <<"config">>
copy_in_before  == <<"copy", "_", "in", "_", "before">>
copy_out_after  == <<"copy", "_", "out", "_", "after">>
copy_timeout    == <<"copy", "_", "timeout">>
prepare_only    == <<"prepare", "_", "only">>
qemu_args       == <<"qemu", "_", "args">>
qmp_timeout     == <<"qmp", "_", "timeout">>
shutdown_timeout == <<"shutdown", "_", "timeout">>
ssh_command     == <<"ssh", "_", "command">>
ssh_bin_name    == <<"ssh", "_", "bin", "_", "name">>
ssh_port        == <<"ssh", "_", "port">>
ssh_timeout     == <<"ssh", "_", "timeout">>
ssh_user        == <<"ssh", "_", "user">>
ssh_console     == <<"ssh", "_", "console">>
ssh_with_serial == <<"ssh", "_", "with", "_", "serial">>
shared_folder   == <<"shared", "_", "folder">>

\* A field of a schema: fields.<type>(missing=..., allow_none=...)
Field(n, ty, allow_none) ==
    [name |-> n, type |-> ty, has_missing |-> FALSE, missing |-> PyNone,
     allow_none |-> allow_none]
FieldMissing(n, ty, missing, allow_none) ==
    [name |-> n, type |-> ty, has_missing |-> TRUE, missing |-> missing,
     allow_none |-> allow_none]

_TransientConfigSchema ==
    << FieldMissing(image, "list", PyList(<<>>), FALSE),
       Field(image_backend, "str", TRUE),
       Field(image_frontend, "str", TRUE),
       Field(name, "str", TRUE) >>

_TransientRunConfigSchema ==
    _TransientConfigSchema \o
    << Field(config_opt, "str", TRUE),
       FieldMissing(copy_in_before, "list", PyList(<<>>), FALSE),
       FieldMissing(copy_out_after, "list", PyList(<<>>), FALSE),
       Field(copy_timeout, "int", TRUE),
       FieldMissing(prepare_only, "bool", PyFalse, FALSE),
       Field(qemu_args, "list", TRUE),
       FieldMissing(qmp_timeout, "int", PyInt(10), TRUE),
       FieldMissing(shutdown_timeout, "int", PyInt(20), FALSE),
       Field(ssh_command, "str", TRUE),
       FieldMissing(ssh_bin_name, "str", PyStr(<<"ssh">>), TRUE),
       Field(ssh_port, "int", TRUE),
       FieldMissing(ssh_timeout, "int", PyInt(90), TRUE),
       FieldMissing(ssh_user, "str", PyStr(<<"vagrant">>), TRUE),
       FieldMissing(ssh_console, "bool", PyFalse, FALSE),
       FieldMissing(ssh_with_serial, "bool", PyFalse, FALSE),
       FieldMissing(shared_folder, "list", PyList(<<>>), FALSE) >>

FieldNames(schema) == {schema[i].name : i \in 1..Len(schema)}
FieldOf(schema, n) == schema[CHOOSE i \in 1..Len(schema) : schema[i].name = n]

\* Config.__getattr__: self.get(attr)
Attr(cfg, attr) == IF Has(cfg, attr) THEN Get(cfg, attr) ELSE PyNone

\* _option_was_set_in_cli as it would be if False counted as a set value
OptionWasSetIgnoringFalse(option) ==
    ~ (\/ option.t = "none"
       \/ (option.t = "tuple" /\ Len(option.v) = 0))

\* option is None or option == () or option is False  ->  not set
_option_was_set_in_cli(option) ==
    ~ (\/ option.t = "none"
       \/ (option.t = "tuple" /\ Len(option.v) = 0)
       \/ (option.t = "bool" /\ option.v = FALSE))

\* remove_unset_options as it would be if it tested the truth of the value:
\* 0, "" and [] would go as well
RemoveFalsyOptions(cfg) ==
    SelectSeq(cfg, LAMBDA kv :
        CASE kv[2].t = "none" -> FALSE
          [] kv[2].t = "bool" -> kv[2].v
          [] kv[2].t = "int"  -> kv[2].v # 0
          [] OTHER            -> Len(kv[2].v) > 0)

\* the pre_load hook: keep the options that were set
remove_unset_options(cfg) ==
    SelectSeq(cfg, LAMBDA kv : _option_was_set_in_cli(kv[2]))

\* one field's deserialisation of a raw value: does it validate, and to what
FieldValid(f, raw) ==
    CASE raw.t = "none"   -> f.allow_none
      [] f.type = "str"   -> raw.t = "str"
      [] f.type = "int"   -> raw.t = "int"
      [] f.type = "bool"  -> raw.t = "bool"
      [] f.type = "list"  -> /\ raw.t \in {"list", "tuple"}
                             /\ \A i \in 1..Len(raw.v) : raw.v[i].t = "str"
      [] OTHER            -> FALSE
FieldDeserialize(f, raw) ==
    IF f.type = "list" /\ raw.t \in {"list", "tuple"} THEN PyList(raw.v) ELSE raw

\* Schema.load after pre_load: per field validate or fill the default,
\* reject unknown keys, collect every invalid option, then post_load
SchemaValidate(schema, data) ==
    LET present == SelectSeq(schema,
                       LAMBDA f : Has(data, f.name) \/ f.has_missing)
        invalid == SelectSeq(schema,
                       LAMBDA f : Has(data, f.name)
                                  /\ ~FieldValid(f, Get(data, f.name)))
        unknown == SelectSeq(data, LAMBDA kv : kv[1] \notin FieldNames(schema))
        errors  == [i \in 1..Len(invalid) |-> invalid[i].name] \o
                   [i \in 1..Len(unknown) |-> unknown[i][1]]
    IN  IF Len(errors) > 0
        THEN [ok |-> FALSE, data |-> <<>>, errors |-> errors, kept |-> data]
        ELSE [ok |-> TRUE, kept |-> data,
              data |-> [i \in 1..Len(present) |->
                         <<present[i].name,
                           IF Has(data, present[i].name)
                           THEN FieldDeserialize(present[i],
                                                 Get(data, present[i].name))
                           ELSE present[i].missing>>],
              errors |-> <<>>]

\* Schema.load: the pre_load hook, then the validation of what it kept
SchemaLoad(schema, raw_cfg) ==
    SchemaValidate(schema, remove_unset_options(raw_cfg))

(***************************************************************************)
(* The configuration resolver's functions.  A call either returns a value  *)
(* or raises: [raised, exc, value].                                        *)
(***************************************************************************)
Returned(val) == [raised |-> FALSE, exc |-> "", value |-> val]
Raised(exc)   == [raised |-> TRUE, exc |-> exc, value |-> <<>>]

\* an outcome together with the messages logged on the way to it
Logging(outcome, msgs) ==
    [raised |-> outcome.raised, exc |-> outcome.exc, value |-> outcome.value,
     log |-> msgs]
Outcome(r) == [raised |-> r.raised, exc |-> r.exc, value |-> r.value]

\* option in line
Contains(line, option) ==
    \E o \in 0..(Len(line) - Len(option)) :
        \A i \in 1..Len(option) : line[o + i] = option[i]

\* _get_line_number_of_option_in_config_file as it would be if it returned
\* the last line that holds the option
LineNumberOfLastMatch(option, lines) ==
    LET hits == {n \in 1..Len(lines) : Contains(lines[n], option)}
    IN  IF hits = {} THEN -1
        ELSE CHOOSE n \in hits : \A k \in hits : k <= n

\* enumerate(config_file, start=1): the first line that holds the option,
\* -1 when none does
_get_line_number_of_option_in_config_file(option, lines) ==
    LET hits == {n \in 1..Len(lines) : Contains(lines[n], option)}
    IN  IF hits = {} THEN -1
        ELSE CHOOSE n \in hits : \A k \in hits : n <= k

RECURSIVE ErrorText(_, _)
\* str(error): the messages of the ValidationError, keyed by option
ErrorText(errors, i) ==
    IF i > Len(errors) THEN <<>>
    ELSE <<"'">> \o errors[i] \o <<"': invalid">> \o
         (IF i < Len(errors) THEN <<", ">> ELSE <<>>) \o
         ErrorText(errors, i + 1)

\* one logging.error per invalid option: with its line when a line holds
\* its hyphenated name, with the error alone when none does
_log_error_message_for_invalid_config_file_option(errors, lines) ==
    [i \in 1..Len(errors) |->
        LET invalid_option == Replace(errors[i], "_", "-")
            line_number == _get_line_number_of_option_in_config_file(
                               invalid_option, lines)
        IN  IF line_number # -1
            THEN <<"Invalid option on line ", ToString(line_number),
                   " in configuration file: ">> \o invalid_option
            ELSE <<"Invalid option in configuration file: ", "{">> \o
                 ErrorText(errors, 1) \o <<"}">>]

RECURSIVE _replace_hyphens_from(_, _, _)
\* the loop of _replace_hyphens_with_underscores_in_dict_keys from item i on
_replace_hyphens_from(d, i, acc) ==
    IF i > Len(d) THEN acc
    ELSE LET k == d[i][1]
             val == d[i][2]
             new_v == IF val.t = "dict"
                      THEN PyDict(_replace_hyphens_from(val.v, 1, <<>>))
                      ELSE val
         IN  _replace_hyphens_from(d, i + 1,
                                   Put(acc, Replace(k, "-", "_"), new_v))

_replace_hyphens_with_underscores_in_dict_keys(d) ==
    _replace_hyphens_from(d, 1, <<>>)

\* toml.loads: the parsed document, or TomlDecodeError on a syntax error
toml_loads(file) ==
    IF file.syntax_ok THEN Returned(file.doc) ELSE Raised("TomlDecodeError")

\* the classes an exception is an instance of (TomlDecodeError is a ValueError)
ExceptionBases(exc) ==
    IF exc = "TomlDecodeError"
    THEN {"TomlDecodeError", "ValueError", "Exception"}
    ELSE {exc, "Exception"}

\* except RuntimeError as error: log and raise ConfigFileParsingError; any
\* other outcome of toml.loads is the outcome of _parse_config_file
ParseOutcome(parsed) ==
    IF parsed.raised /\ "RuntimeError" \in ExceptionBases(parsed.exc)
    THEN Logging(Raised("ConfigFileParsingError"),
                 << <<"Failed to parse configuration file: ", parsed.exc>> >>)
    ELSE Logging(parsed, <<>>)

\* try: toml.loads(...)  except RuntimeError: raise ConfigFileParsingError
_parse_config_file(file) == ParseOutcome(toml_loads(file))

\* except ValidationError as error: log each invalid option and raise
\* ConfigFileOptionError; otherwise return config
FileLoadOutcome(loaded, lines) ==
    IF loaded.ok
    THEN Logging(Returned(loaded.data), <<>>)
    ELSE Logging(Raised("ConfigFileOptionError"),
                 _log_error_message_for_invalid_config_file_option(
                     loaded.errors, lines))

\* _load_config_file from its second statement on: parsed_config_file
\* ["transient"] and ["qemu"]["qemu-args"] may be missing (KeyError)
LoadParsedConfigFile(parsed, lines) ==
    IF parsed.raised THEN parsed
    ELSE IF \/ ~Has(parsed.value, <<"transient">>)
            \/ ~Has(parsed.value, <<"qemu">>)
            \/ ~Has(Get(parsed.value, <<"qemu">>).v, <<"qemu", "-", "args">>)
    THEN Logging(Raised("KeyError"), <<>>)
    ELSE FileLoadOutcome(
             SchemaLoad(_TransientRunConfigSchema,
                 Put(_replace_hyphens_with_underscores_in_dict_keys(
                         Get(parsed.value, <<"transient">>).v),
                     qemu_args,
                     Get(Get(parsed.value, <<"qemu">>).v,
                         <<"qemu", "-", "args">>))),
             lines)

_load_config_file(file) ==
    LoadParsedConfigFile(_parse_config_file(file), file.lines)

RECURSIVE ConsolidateFileWins(_, _, _)
\* _consolidate_from as it would be if the file's value always won
ConsolidateFileWins(cli, cfg, i) ==
    IF i > Len(cfg) THEN Returned(cli)
    ELSE IF ~Has(cli, cfg[i][1])
         THEN [raised |-> TRUE, exc |-> "KeyError", value |-> cli]
         ELSE ConsolidateFileWins(Put(cli, cfg[i][1], cfg[i][2]), cfg, i + 1)

RECURSIVE ConsolidateExtending(_, _, _)
\* _consolidate_from as it would be if the file's qemu_args were added to
\* the CLI's and did not replace them
ConsolidateExtending(cli, cfg, i) ==
    IF i > Len(cfg) THEN Returned(cli)
    ELSE LET option == cfg[i][1]
             val    == cfg[i][2]
         IN  IF ~Has(cli, option)
             THEN [raised |-> TRUE, exc |-> "KeyError", value |-> cli]
             ELSE IF option = qemu_args
                  THEN ConsolidateExtending(
                           Put(cli, option,
                               PyTuple(Get(cli, option).v \o val.v)),
                           cfg, i + 1)
                  ELSE IF ~_option_was_set_in_cli(Get(cli, option))
                  THEN ConsolidateExtending(Put(cli, option, val), cfg, i + 1)
                  ELSE ConsolidateExtending(cli, cfg, i + 1)

RECURSIVE _consolidate_from(_, _, _)
\* the loop of _consolidate_cli_args_and_config_file from item i on; a
\* missing cli_args[option] is a KeyError
_consolidate_from(cli, cfg, i) ==
    IF i > Len(cfg) THEN Returned(cli)
    ELSE LET option == cfg[i][1]
             val    == cfg[i][2]
         IN  IF ~Has(cli, option)
             THEN [raised |-> TRUE, exc |-> "KeyError", value |-> cli]
             ELSE IF \/ (/\ option = qemu_args
                         /\ Get(cli, option) = PyTuple(<<>>))
                     \/ ~_option_was_set_in_cli(Get(cli, option))
                  THEN _consolidate_from(Put(cli, option, val), cfg, i + 1)
                  ELSE _consolidate_from(cli, cfg, i + 1)

\* the loop over config.items(), when _load_config_file returned
ConsolidateWith(cli, cfg) ==
    IF cfg.raised
    THEN [raised |-> TRUE, exc |-> cfg.exc, value |-> cli, log |-> cfg.log]
    ELSE Logging(_consolidate_from(cli, cfg.value, 1), cfg.log)

\* returns the merged mapping, which is cli_args itself, written in place;
\* when it raises, value is cli_args as the call left it
_consolidate_cli_args_and_config_file(cli, file) ==
    ConsolidateWith(cli, _load_config_file(file))

\* except ValidationError as error: log and raise CLIArgumentError;
\* otherwise return validated_config
CliLoadOutcome(loaded) ==
    [raised |-> ~loaded.ok,
     exc    |-> IF loaded.ok THEN "" ELSE "CLIArgumentError",
     value  |-> loaded.data,
     log    |-> IF loaded.ok THEN <<>>
                ELSE << <<"Invalid command line arguments given: ", "{">> \o
                        ErrorText(loaded.errors, 1) \o <<"}">> >>,
     kept   |-> PyDict(loaded.kept)]

_create_transient_config_with_schema(cfg, schema) ==
    CliLoadOutcome(SchemaLoad(schema, cfg))

\* bool(cli_args["config"])
Truthy(val) ==
    CASE val.t = "none" -> FALSE
      [] val.t = "bool" -> val.v
      [] val.t = "int"  -> val.v # 0
      [] OTHER          -> Len(val.v) > 0

\* the outcome of the validation, with the mapping it was given and the
\* messages logged before it
ValidatedConfig(made, cli, log) ==
    [out |-> Outcome(made), cli |-> cli, log |-> log \o made.log,
     kept |-> made.kept]

\* schema = _TransientRunConfigSchema(); return
\* _create_transient_config_with_schema(config, schema), when config is
\* there; an exception of the merge leaves create_transient_run_config
RunConfigFrom(merged) ==
    IF merged.raised
    THEN [out |-> Raised(merged.exc), cli |-> merged.value,
          log |-> merged.log, kept |-> PyNone]
    ELSE ValidatedConfig(
             _create_transient_config_with_schema(merged.value,
                                                  _TransientRunConfigSchema),
             merged.value, merged.log)

\* the resolution, the CLI mapping as the call leaves it, what it logged and
\* what the pre-load hook kept
create_transient_run_config(cli, file) ==
    RunConfigFrom(IF Truthy(Get(cli, config_opt))
                  THEN _consolidate_cli_args_and_config_file(cli, file)
                  ELSE Logging(Returned(cli), <<>>))

(***************************************************************************)
(* The inputs of the resolver: a CLI mapping that holds every option of    *)
(* the run schema (unset ones as None, () or False) and a TOML document.   *)
(***************************************************************************)
CliUnset(f) ==
    CASE f.type = "list" -> PyTuple(<<>>)
      [] f.type = "bool" -> PyFalse
      [] OTHER           -> PyNone

CliValues(f) ==
    CASE f.type = "str"  -> {PyStr(<<"alice">>)}
      [] f.type = "int"  -> {PyInt(0), PyInt(7)}
      [] f.type = "bool" -> {PyTrue}
      [] f.type = "list" -> {StrTuple(<<"x">>)}

FileValues(f) ==
    CASE f.type = "str"  -> {PyStr(<<"root">>)}
      [] f.type = "int"  -> {PyInt(0), PyInt(9)}
      [] f.type = "bool" -> {PyTrue, PyFalse}
      [] f.type = "list" -> {StrList(<<>>), StrList(<<"y">>)}

\* a value of the wrong type for the field
FileBadValue(f) ==
    IF f.type = "str" THEN PyInt(5) ELSE PyStr(<<"fast">>)

\* the options the file may give a value of the wrong type, and the ways
\* the file may write them: under the hyphenated key, under the key with
\* underscores, and under the hyphenated key with a comment line that names
\* the key at the head of the file
BadFileFields == {ssh_port, ssh_user, ssh_console, shared_folder}
FileForms     == {"plain", "underscored", "commented"}

ConfigPaths   == {PyNone, PyStr(<<"transient.toml">>)}
FileQemuArgs  == {PyNone, StrList(<<>>), StrList(<<"-m", "1G">>)}
CliQemuArgs   == {PyTuple(<<>>), StrTuple(<<"-s">>)}

RunFields == Range(_TransientRunConfigSchema)
Absent == [t |-> "absent", v |-> <<>>]

\* one option, with the value the CLI gives it (or the unset sentinel), the
\* value the file's [transient] table gives it (or no key at all) and the
\* way the file writes it; config and qemu_args have their own places in
\* the input
OptionPicks ==
    UNION {{<<f.name, c, fv, "plain">> :
              c \in (IF f.name \in {config_opt, qemu_args}
                     THEN {CliUnset(f)} ELSE CliValues(f) \cup {CliUnset(f)}),
              fv \in (IF f.name = qemu_args
                      THEN {Absent} ELSE FileValues(f) \cup {Absent})} :
             f \in RunFields}
    \cup
    UNION {{<<f.name, c, FileBadValue(f), "plain">> :
                c \in CliValues(f) \cup {CliUnset(f)}}
           \cup {<<f.name, CliUnset(f), FileBadValue(f), form>> :
                    form \in FileForms} :
             f \in {g \in RunFields : g.name \in BadFileFields}}

\* the key the file writes a picked option under
FileKey(pick) ==
    IF pick[4] = "underscored" THEN pick[1] ELSE Replace(pick[1], "_", "-")

\* the CLI mapping: every option, set where a pick sets it
CliMapping(picks, cfg_path, cli_qemu_args) ==
    [j \in 1..Len(_TransientRunConfigSchema) |->
        LET f    == _TransientRunConfigSchema[j]
            mine == {i \in 1..Len(picks) : picks[i][1] = f.name}
        IN  <<f.name,
              IF f.name = config_opt THEN cfg_path
              ELSE IF f.name = qemu_args THEN cli_qemu_args
              ELSE IF mine = {} THEN CliUnset(f)
              ELSE picks[CHOOSE i \in mine : \A k \in mine : k <= i][2]>>]

RECURSIVE TransientTable(_, _, _)
\* the [transient] table of the file: the picked options under hyphenated keys
TransientTable(picks, i, acc) ==
    IF i > Len(picks) THEN acc
    ELSE TransientTable(picks, i + 1,
             IF picks[i][3] # Absent
             THEN Put(acc, FileKey(picks[i]), picks[i][3])
             ELSE acc)

TomlDocument(picks, file_qemu_args) ==
    << <<(<<"transient">>), PyDict(TransientTable(picks, 1, <<>>))>>,
       <<(<<"qemu">>),
         PyDict(IF file_qemu_args = PyNone THEN <<>>
                ELSE << <<(<<"qemu", "-", "args">>), file_qemu_args>> >>)>> >>

RECURSIVE TomlItems(_, _)
\* the items of an array as the file writes them
TomlItems(items, i) ==
    IF i > Len(items) THEN <<>>
    ELSE <<"\"">> \o items[i].v \o <<"\"">> \o
         (IF i < Len(items) THEN <<", ">> ELSE <<>>) \o TomlItems(items, i + 1)

\* a value as the file writes it
TomlValue(val) ==
    CASE val.t = "str"  -> <<"\"">> \o val.v \o <<"\"">>
      [] val.t = "int"  -> <<ToString(val.v)>>
      [] val.t = "bool" -> <<IF val.v THEN "true" ELSE "false">>
      [] OTHER          -> <<"[">> \o TomlItems(val.v, 1) \o <<"]">>

\* the lines of the file that parses to TomlDocument: the comment lines,
\* [transient] and its keys, [qemu] and its qemu-args
TomlLines(picks, file_qemu_args) ==
    LET commented == SelectSeq(picks, LAMBDA pick : /\ pick[3] # Absent
                                                    /\ pick[4] = "commented")
        table == TransientTable(picks, 1, <<>>)
    IN  [i \in 1..Len(commented) |->
             <<"# ">> \o FileKey(commented[i]) \o <<" is set below">>] \o
        << <<"[", "transient", "]">> >> \o
        [i \in 1..Len(table) |->
             table[i][1] \o <<" = ">> \o TomlValue(table[i][2])] \o
        << <<"[", "qemu", "]">> >> \o
        (IF file_qemu_args = PyNone THEN <<>>
         ELSE << <<"qemu", "-", "args", " = ">> \o
                 TomlValue(file_qemu_args) >>)

NoFile  == [syntax_ok |-> TRUE, doc |-> <<>>, lines |-> <<>>]
Pending == [raised |-> FALSE, exc |-> "pending", value |-> <<>>]

ResolverIdle ==
    /\ cli_args = <<>> /\ cli_input = <<>> /\ config_file = NoFile
    /\ rpc = "off" /\ first = Pending /\ second = Pending
    /\ logged = <<>> /\ config_without_unset_options = PyNone

ResolverInit ==
    \E picks \in [1..MaxOptions -> OptionPicks], cfg_path \in ConfigPaths,
       cli_qemu_args \in CliQemuArgs :
        /\ cli_input = CliMapping(picks, cfg_path, cli_qemu_args)
        /\ cli_args = cli_input
        /\ IF cfg_path = PyNone
           THEN config_file = NoFile
           ELSE \E syntax_ok \in BOOLEAN, file_qemu_args \in FileQemuArgs :
                  config_file =
                      IF syntax_ok
                      THEN [syntax_ok |-> TRUE,
                            doc |-> TomlDocument(picks, file_qemu_args),
                            lines |-> TomlLines(picks, file_qemu_args)]
                      ELSE [syntax_ok |-> FALSE, doc |-> <<>>,
                            lines |-> << <<"[", "transient">> >>]
        /\ rpc = "start" /\ first = Pending /\ second = Pending
        /\ logged = <<>> /\ config_without_unset_options = PyNone

ResolverOnly == UNCHANGED <<norm_vars, vm_vars>>

\* create_transient_run_config(cli_args)
Resolve ==
    /\ rpc = "start"
    /\ \E r \in {create_transient_run_config(cli_args, config_file)} :
           /\ first' = r.out
           /\ cli_args' = r.cli
           /\ logged' = logged \o r.log
           /\ config_without_unset_options' = r.kept
    /\ rpc' = "once"
    /\ UNCHANGED <<cli_input, config_file, second>>
    /\ ResolverOnly

\* a second call that is given the same mapping object again
ResolveAgainSameMapping ==
    /\ rpc = "once"
    /\ \E r \in {create_transient_run_config(cli_args, config_file)} :
           /\ second' = r.out
           /\ cli_args' = r.cli
           /\ logged' = logged \o r.log
           /\ config_without_unset_options' = r.kept
    /\ rpc' = "twice_same"
    /\ UNCHANGED <<cli_input, config_file, first>>
    /\ ResolverOnly

\* a second call that is given an equal, separate mapping
ResolveAgainEqualInput ==
    /\ rpc = "once"
    /\ \E r \in {create_transient_run_config(cli_input, config_file)} :
           /\ second' = r.out
           /\ logged' = logged \o r.log
           /\ config_without_unset_options' = r.kept
    /\ rpc' = "twice_equal"
    /\ UNCHANGED <<cli_args, cli_input, config_file, first>>
    /\ ResolverOnly

(***************************************************************************)
(* The VM session orchestrator: TransientVm.                               *)
(***************************************************************************)
Call(fn, args) == [t |-> fn, v |-> args]
NumCalls(fn)   == Cardinality({i \in 1..Len(calls) : calls[i].t = fn})

ExitCodes      == 0..MaxExit
EphemeralPorts == {49152, 49153}

\* image.ImageStore.create_vm_image: the descriptor of the VM-local copy
ImagePath(image_name, vm_name, idx) ==
    <<"vm/">> \o (IF vm_name.t = "str" THEN vm_name.v ELSE <<"None">>)
    \o <<"-", ToString(idx), "-">> \o image_name.v
ImageInfo(image_name, vm_name, idx) ==
    [t |-> "ImageInfo",
     v |-> [name |-> image_name, idx |-> idx,
            path |-> ImagePath(image_name, vm_name, idx)]]

SshConfig(host, port, user, ssh_bin) ==
    [t |-> "SshConfig",
     v |-> [host |-> host, port |-> port, user |-> user,
            ssh_bin_name |-> ssh_bin]]

QemuRunner(args, quiet, silenceable) ==
    [t |-> "QemuRunner",
     v |-> [args |-> args, quiet |-> quiet, silenceable |-> silenceable,
            started |-> FALSE, silenced |-> FALSE, status |-> PyNone]]

\* __needs_ssh as it would be if it left the shared folders out
NeedsSshWithoutSharedFolders ==
    \/ Attr(config, ssh_console) = PyTrue
    \/ Attr(config, ssh_command) # PyNone
    \/ Attr(config, ssh_with_serial) = PyTrue

__needs_ssh ==
    \/ Attr(config, ssh_console) = PyTrue
    \/ Attr(config, ssh_command) # PyNone
    \/ Attr(config, ssh_with_serial) = PyTrue
    \/ Len(Attr(config, shared_folder).v) > 0

\* __needs_ssh_console as it would be if it forgot ssh_command
NeedsSshConsoleWithoutCommand ==
    \/ Attr(config, ssh_console) = PyTrue
    \/ Attr(config, ssh_with_serial) = PyTrue

__needs_ssh_console ==
    \/ Attr(config, ssh_console) = PyTrue
    \/ Attr(config, ssh_with_serial) = PyTrue
    \/ Attr(config, ssh_command) # PyNone

RECURSIVE DriveArgsReversed(_)
\* DriveArgs as it would be if the images were attached last first
DriveArgsReversed(images) ==
    IF Len(images) = 0 THEN <<>>
    ELSE DriveArgsReversed(Tail(images))
         \o <<PyStr(<<"-drive">>), PyStr(<<"file=">> \o images[1].v.path)>>

RECURSIVE DriveArgs(_)
\* for image in self.vm_images: new_args.extend(["-drive", "file=<path>"])
DriveArgs(images) ==
    IF Len(images) = 0 THEN <<>>
    ELSE <<PyStr(<<"-drive">>), PyStr(<<"file=">> \o images[1].v.path)>>
         \o DriveArgs(Tail(images))

\* "user,id=transient-sshdev,hostfwd=tcp::{}-:22".format(ssh_port)
NetdevArgs(port) ==
    <<PyStr(<<"-netdev">>),
      PyStr(<<"user,id=transient-sshdev,hostfwd=tcp::", ToString(port.v),
              "-:22">>),
      PyStr(<<"-device">>),
      PyStr(<<"e1000,netdev=transient-sshdev">>)>>

\* __qemu_added_devices as it would be if the forward were formatted with the
\* configured port and not with the port in use
QemuAddedDevicesConfiguredPort(images, port) ==
    DriveArgs(images)
    \o (IF __needs_ssh
        THEN (IF __needs_ssh_console THEN <<PyStr(<<"-nographic">>)>>
              ELSE <<>>)
             \o NetdevArgs(IF Attr(config, ssh_port) = PyNone THEN PyInt(0)
                           ELSE Attr(config, ssh_port))
        ELSE <<>>)

\* the list __qemu_added_devices returns, port being its local ssh_port
__qemu_added_devices(images, port) ==
    DriveArgs(images)
    \o (IF __needs_ssh
        THEN (IF __needs_ssh_console THEN <<PyStr(<<"-nographic">>)>>
              ELSE <<>>)
             \o NetdevArgs(port)
        ELSE <<>>)

RECURSIVE Split(_, _, _)
\* str.split(sep): the parts of s between the sep tokens
Split(s, sep, part) ==
    IF Len(s) = 0 THEN <<part>>
    ELSE IF s[1] = sep THEN <<part>> \o Split(Tail(s), sep, <<>>)
    ELSE Split(Tail(s), sep, Append(part, s[1]))

\* os.path.abspath
AbsPath(path) ==
    IF Len(path) > 0 /\ path[1] = "/" THEN path ELSE <<"/", "cwd", "/">> \o path

__current_user == PyStr(<<"user">>)

ImageNames == {PyStr(<<"base">>), PyStr(<<"overlay">>)}
ShareSpecs == {PyStr(<<"src", ":", "/mnt">>), PyStr(<<"/data", ":", "/data">>)}
SeqsUpTo(S, n) == UNION {[1..k -> S] : k \in 0..n}

\* the CLI mapping of one transient-run invocation without a config file
RunCli(images, shared, flags, command, port, timeout, args) ==
    [j \in 1..Len(_TransientRunConfigSchema) |->
        LET f == _TransientRunConfigSchema[j]
        IN  <<f.name,
              CASE f.name = image           -> PyTuple(images)
                [] f.name = shared_folder   -> PyTuple(shared)
                [] f.name = name            -> PyStr(<<"db">>)
                [] f.name = prepare_only    -> PyBool(flags[1])
                [] f.name = ssh_console     -> PyBool(flags[2])
                [] f.name = ssh_with_serial -> PyBool(flags[3])
                [] f.name = ssh_command     -> command
                [] f.name = ssh_port        -> port
                [] f.name = ssh_timeout     -> timeout
                [] f.name = qemu_args       -> args
                [] OTHER                    -> CliUnset(f)>>]

VmIdle ==
    /\ config = <<>> /\ pc = "off" /\ new_images = <<>> /\ vm_images = <<>>
    /\ ssh_config = PyNone /\ qemu_runner = PyNone /\ added_qemu_args = PyNone
    /\ returncode = PyNone /\ result = PyNone /\ calls = <<>>

\* TransientVm.__init__ on a configuration the resolver produced
VmInit ==
    /\ \E images \in SeqsUpTo(ImageNames, MaxImages),
          shared \in SeqsUpTo(ShareSpecs, MaxShared),
          flags \in [1..3 -> BOOLEAN],
          command \in {PyNone, PyStr(<<"ls">>)},
          port \in {PyNone, PyInt(2222)},
          timeout \in {PyNone, PyInt(30)},
          args \in {PyTuple(<<>>), StrTuple(<<"-m", "1G">>)} :
            config = create_transient_run_config(
                         RunCli(images, shared, flags, command, port,
                                timeout, args), NoFile).out.value
    /\ pc = "create_images" /\ new_images = <<>> /\ vm_images = <<>>
    /\ ssh_config = PyNone /\ qemu_runner = PyNone /\ added_qemu_args = PyNone
    /\ returncode = PyNone /\ result = PyNone /\ calls = <<>>

VmOnly == UNCHANGED <<resolver_vars, norm_vars>>
Raise == pc' = "raised"

\* one iteration of __create_images: store.create_vm_image(...) returns
CreateVmImage ==
    /\ pc = "create_images"
    /\ Len(new_images) < Len(Attr(config, image).v)
    /\ LET idx        == Len(new_images)
           image_name == Attr(config, image).v[idx + 1]
       IN  /\ calls' = Append(calls,
                  Call("create_vm_image",
                       <<image_name, Attr(config, name), PyInt(idx)>>))
           /\ new_images' = Append(new_images,
                  ImageInfo(image_name, Attr(config, name), idx))
    /\ UNCHANGED <<config, pc, vm_images, ssh_config, qemu_runner,
                   added_qemu_args, returncode, result>>
    /\ VmOnly

\* CreateVmImageFails as it would be if run caught the failure and went on
\* with the images it has
CreateVmImageFailsAndRunGoesOn ==
    /\ pc = "create_images"
    /\ Len(new_images) < Len(Attr(config, image).v)
    /\ LET idx        == Len(new_images)
           image_name == Attr(config, image).v[idx + 1]
       IN  calls' = Append(calls,
               Call("create_vm_image",
                    <<image_name, Attr(config, name), PyInt(idx)>>))
    /\ vm_images' = new_images
    /\ pc' = "add_devices"
    /\ UNCHANGED <<config, new_images, ssh_config, qemu_runner,
                   added_qemu_args, returncode, result>>
    /\ VmOnly

\* one iteration of __create_images: store.create_vm_image(...) raises
CreateVmImageFails ==
    /\ pc = "create_images"
    /\ Len(new_images) < Len(Attr(config, image).v)
    /\ LET idx        == Len(new_images)
           image_name == Attr(config, image).v[idx + 1]
       IN  calls' = Append(calls,
               Call("create_vm_image",
                    <<image_name, Attr(config, name), PyInt(idx)>>))
    /\ Raise
    /\ UNCHANGED <<config, new_images, vm_images, ssh_config, qemu_runner,
                   added_qemu_args, returncode, result>>
    /\ VmOnly

\* ImagesCreated as it would be without the early return
ImagesCreatedNoEarlyExit ==
    /\ pc = "create_images"
    /\ Len(new_images) = Len(Attr(config, image).v)
    /\ vm_images' = new_images
    /\ pc' = "add_devices"
    /\ UNCHANGED <<config, new_images, ssh_config, qemu_runner,
                   added_qemu_args, returncode, result, calls>>
    /\ VmOnly

\* self.vm_images = ...; if self.config.prepare_only is True: return 0
ImagesCreated ==
    /\ pc = "create_images"
    /\ Len(new_images) = Len(Attr(config, image).v)
    /\ vm_images' = new_images
    /\ IF Attr(config, prepare_only) = PyTrue
       THEN pc' = "returned" /\ result' = PyInt(0)
       ELSE pc' = "add_devices" /\ result' = result
    /\ UNCHANGED <<config, new_images, ssh_config, qemu_runner,
                   added_qemu_args, returncode, calls>>
    /\ VmOnly

\* added_qemu_args = self.__qemu_added_devices()
AddDevices ==
    /\ pc = "add_devices"
    /\ IF __needs_ssh
       THEN IF Attr(config, ssh_port) = PyNone
            THEN \E p \in EphemeralPorts :
                   /\ calls' = Append(calls,
                          Call("allocate_random_port", <<PyInt(p)>>))
                   /\ ssh_config' = SshConfig(PyStr(<<"localhost">>), PyInt(p),
                          Attr(config, ssh_user), Attr(config, ssh_bin_name))
                   /\ added_qemu_args' =
                          PyList(__qemu_added_devices(vm_images, PyInt(p)))
            ELSE /\ calls' = calls
                 /\ ssh_config' = SshConfig(PyStr(<<"localhost">>),
                        Attr(config, ssh_port),
                        Attr(config, ssh_user), Attr(config, ssh_bin_name))
                 /\ added_qemu_args' =
                        PyList(__qemu_added_devices(vm_images,
                                                Attr(config, ssh_port)))
       ELSE /\ calls' = calls
            /\ ssh_config' = ssh_config
            /\ added_qemu_args' = PyList(__qemu_added_devices(vm_images, PyNone))
    /\ pc' = "make_runner"
    /\ UNCHANGED <<config, new_images, vm_images, qemu_runner, returncode,
                   result>>
    /\ VmOnly

\* QemuQuiet as it would be if the serial case did not clear it
QemuQuietWheneverConsole == __needs_ssh_console

\* the quiet and silenceable flags run chooses
QemuQuiet ==
    __needs_ssh_console /\ ~(Attr(config, ssh_with_serial) = PyTrue)
QemuSilenceable ==
    __needs_ssh_console /\ Attr(config, ssh_with_serial) = PyTrue

\* full_qemu_args = added_qemu_args + self.config.qemu_args, the flags,
\* self.qemu_runner = qemu.QemuRunner(...); list + None is a TypeError
MakeRunner ==
    /\ pc = "make_runner"
    /\ IF Attr(config, qemu_args).t = "list"
       THEN /\ qemu_runner' =
                   QemuRunner(added_qemu_args.v \o Attr(config, qemu_args).v,
                              QemuQuiet, QemuSilenceable)
            /\ pc' = "start"
       ELSE /\ qemu_runner' = qemu_runner
            /\ Raise
    /\ UNCHANGED <<config, new_images, vm_images, ssh_config, added_qemu_args,
                   returncode, result, calls>>
    /\ VmOnly

\* self.qemu_runner.start() returns
Start ==
    /\ pc = "start"
    /\ qemu_runner' = [qemu_runner EXCEPT !.v.started = TRUE]
    /\ calls' = Append(calls,
           Call("start", <<PyList(qemu_runner.v.args),
                           PyBool(qemu_runner.v.quiet),
                           PyBool(qemu_runner.v.silenceable)>>))
    /\ pc' = "mount"
    /\ UNCHANGED <<config, new_images, vm_images, ssh_config, added_qemu_args,
                   returncode, result>>
    /\ VmOnly

\* self.qemu_runner.start() raises
StartFails ==
    /\ pc = "start"
    /\ calls' = Append(calls,
           Call("start", <<PyList(qemu_runner.v.args),
                           PyBool(qemu_runner.v.quiet),
                           PyBool(qemu_runner.v.silenceable)>>))
    /\ Raise
    /\ UNCHANGED <<config, new_images, vm_images, ssh_config, qemu_runner,
                   added_qemu_args, returncode, result>>
    /\ VmOnly

\* NextShared as it would be if the loop went through the specs backwards
NextSharedFromTheEnd ==
    Attr(config, shared_folder).v[Len(Attr(config, shared_folder).v)
                                  - NumCalls("do_sshfs_mount")]

\* the shared_folder spec the mount loop is at
NextShared == Attr(config, shared_folder).v[NumCalls("do_sshfs_mount") + 1]
MountArgs ==
    LET parts == Split(NextShared.v, ":", <<>>)
    IN  <<Attr(config, ssh_timeout), ssh_config,
          PyStr(AbsPath(parts[1])), PyStr(parts[2]), __current_user>>

\* one iteration of the mount loop; the assert and the unpacking of
\* split(":") raise, sshfs.do_sshfs_mount returns
Mount ==
    /\ pc = "mount"
    /\ NumCalls("do_sshfs_mount") < Len(Attr(config, shared_folder).v)
    /\ IF ssh_config = PyNone \/ Len(Split(NextShared.v, ":", <<>>)) # 2
       THEN calls' = calls /\ Raise
       ELSE /\ calls' = Append(calls, Call("do_sshfs_mount", MountArgs))
            /\ pc' = pc
    /\ UNCHANGED <<config, new_images, vm_images, ssh_config, qemu_runner,
                   added_qemu_args, returncode, result>>
    /\ VmOnly

\* one iteration of the mount loop in which sshfs.do_sshfs_mount raises
MountFails ==
    /\ pc = "mount"
    /\ NumCalls("do_sshfs_mount") < Len(Attr(config, shared_folder).v)
    /\ ssh_config # PyNone /\ Len(Split(NextShared.v, ":", <<>>)) = 2
    /\ calls' = Append(calls, Call("do_sshfs_mount", MountArgs))
    /\ Raise
    /\ UNCHANGED <<config, new_images, vm_images, ssh_config, qemu_runner,
                   added_qemu_args, returncode, result>>
    /\ VmOnly

\* the loop is over: if self.__needs_ssh_console() ... else ...
Mounted ==
    /\ pc = "mount"
    /\ NumCalls("do_sshfs_mount") = Len(Attr(config, shared_folder).v)
    /\ pc' = IF __needs_ssh_console THEN "connect_ssh" ELSE "qemu_wait"
    /\ UNCHANGED <<config, new_images, vm_images, ssh_config, qemu_runner,
                   added_qemu_args, returncode, result, calls>>
    /\ VmOnly

\* ConnectSsh as it would be if the console were silenced before the
\* connection is made
ConnectSshSilencingFirst ==
    /\ pc = "connect_ssh"
    /\ IF ssh_config = PyNone \/ qemu_runner = PyNone
       THEN /\ Raise
            /\ UNCHANGED <<calls, qemu_runner>>
       ELSE /\ calls' = calls \o
                <<Call("silence", <<>>),
                  Call("connect_stdout",
                       <<ssh_config, Attr(config, ssh_command),
                         Attr(config, ssh_timeout)>>)>>
            /\ qemu_runner' = [qemu_runner EXCEPT !.v.silenced = TRUE]
            /\ pc' = "ssh_wait"
    /\ UNCHANGED <<config, new_images, vm_images, ssh_config, added_qemu_args,
                   returncode, result>>
    /\ VmOnly

\* __connect_ssh up to silence(): the asserts, connect_stdout returns,
\* self.qemu_runner.silence()
ConnectSsh ==
    /\ pc = "connect_ssh"
    /\ IF ssh_config = PyNone \/ qemu_runner = PyNone
       THEN /\ Raise
            /\ UNCHANGED <<calls, qemu_runner>>
       ELSE /\ calls' = calls \o
                <<Call("connect_stdout",
                       <<ssh_config, Attr(config, ssh_command),
                         Attr(config, ssh_timeout)>>),
                  Call("silence", <<>>)>>
            /\ qemu_runner' = [qemu_runner EXCEPT !.v.silenced = TRUE]
            /\ pc' = "ssh_wait"
    /\ UNCHANGED <<config, new_images, vm_images, ssh_config, added_qemu_args,
                   returncode, result>>
    /\ VmOnly

\* __connect_ssh: connect_stdout raises (refused, timed out)
ConnectSshFails ==
    /\ pc = "connect_ssh"
    /\ ssh_config # PyNone /\ qemu_runner # PyNone
    /\ calls' = Append(calls,
           Call("connect_stdout",
                <<ssh_config, Attr(config, ssh_command),
                  Attr(config, ssh_timeout)>>))
    /\ Raise
    /\ UNCHANGED <<config, new_images, vm_images, ssh_config, qemu_runner,
                   added_qemu_args, returncode, result>>
    /\ VmOnly

\* conn.wait(); return conn.returncode
SshWait ==
    /\ pc = "ssh_wait"
    /\ \E code \in ExitCodes :
         /\ calls' = Append(calls, Call("conn_wait", <<PyInt(code)>>))
         /\ returncode' = PyInt(code)
    /\ pc' = "ssh_shutdown"
    /\ UNCHANGED <<config, new_images, vm_images, ssh_config, qemu_runner,
                   added_qemu_args, result>>
    /\ VmOnly

\* what the guest runs for a connection of an SshClient made with this
\* command and given this input: the command when the client carries one,
\* otherwise the shell the connection opens runs its input
SshClientRuns(command, input) ==
    IF command = PyNone THEN input ELSE command

ShutdownCall ==
    Call("connect_piped",
         <<ssh_config, Attr(config, ssh_command), PyInt(15),
           PyStr(<<"sudo shutdown -h now">>), PyInt(15)>>)

\* __ssh_shutdown returns
SshShutdown ==
    /\ pc = "ssh_shutdown"
    /\ calls' = Append(calls, ShutdownCall)
    /\ pc' = "grace_wait"
    /\ UNCHANGED <<config, new_images, vm_images, ssh_config, qemu_runner,
                   added_qemu_args, returncode, result>>
    /\ VmOnly

\* __ssh_shutdown: connect_piped or communicate raises
SshShutdownFails ==
    /\ pc = "ssh_shutdown"
    /\ calls' = Append(calls, ShutdownCall)
    /\ Raise
    /\ UNCHANGED <<config, new_images, vm_images, ssh_config, qemu_runner,
                   added_qemu_args, returncode, result>>
    /\ VmOnly

\* GraceWait as it would be if run returned the status of the hypervisor
GraceWaitReturnsQemuStatus ==
    /\ pc = "grace_wait"
    /\ \E status \in {PyNone} \cup {PyInt(c) : c \in ExitCodes} :
         /\ qemu_runner' = [qemu_runner EXCEPT !.v.status = status]
         /\ calls' = Append(calls, Call("wait", <<PyInt(10), status>>))
         /\ result' = status
    /\ pc' = "returned"
    /\ UNCHANGED <<config, new_images, vm_images, ssh_config, added_qemu_args,
                   returncode>>
    /\ VmOnly

\* self.qemu_runner.wait(10) returns (the status, or None when the grace
\* period expired); return returncode
GraceWait ==
    /\ pc = "grace_wait"
    /\ \E status \in {PyNone} \cup {PyInt(c) : c \in ExitCodes} :
         /\ qemu_runner' = [qemu_runner EXCEPT !.v.status = status]
         /\ calls' = Append(calls, Call("wait", <<PyInt(10), status>>))
    /\ result' = returncode
    /\ pc' = "returned"
    /\ UNCHANGED <<config, new_images, vm_images, ssh_config, added_qemu_args,
                   returncode>>
    /\ VmOnly

\* self.qemu_runner.wait(10) raises when the grace period expires
GraceWaitFails ==
    /\ pc = "grace_wait"
    /\ calls' = Append(calls, Call("wait", <<PyInt(10), PyNone>>))
    /\ Raise
    /\ UNCHANGED <<config, new_images, vm_images, ssh_config, qemu_runner,
                   added_qemu_args, returncode, result>>
    /\ VmOnly

\* return self.qemu_runner.wait()
QemuWait ==
    /\ pc = "qemu_wait"
    /\ \E code \in ExitCodes :
         /\ qemu_runner' = [qemu_runner EXCEPT !.v.status = PyInt(code)]
         /\ calls' = Append(calls, Call("wait", <<PyNone, PyInt(code)>>))
         /\ result' = PyInt(code)
    /\ pc' = "returned"
    /\ UNCHANGED <<config, new_images, vm_images, ssh_config, added_qemu_args,
                   returncode>>
    /\ VmOnly

(***************************************************************************)
(* The key normaliser on nested tables: the tables toml.loads can return,  *)
(* with sub-tables and arrays of tables.                                   *)
(***************************************************************************)
NormKeys    == {<<"a", "-", "b">>, <<"a", "_", "b">>, <<"c">>}
NormScalars == {PyStr(<<"x", "-", "y">>)}

DistinctKeys(d) == \A i, j \in 1..Len(d) : d[i][1] = d[j][1] => i = j

RECURSIVE NestedTables(_)
NestedValues(depth) ==
    NormScalars \cup
    (IF depth = 0 THEN {}
     ELSE {PyDict(d) : d \in NestedTables(depth - 1)}
          \cup {PyList(<<PyDict(d)>>) : d \in NestedTables(depth - 1)})
NestedTables(depth) ==
    UNION {{d \in [1..n -> NormKeys \X NestedValues(depth)] : DistinctKeys(d)} :
             n \in 0..MaxKeys}

NormIdle == dictionary = <<>> /\ final_dict = PyDict(<<>>)

NormInit == dictionary \in NestedTables(MaxDepth) /\ final_dict = PyNone

\* final_dict = _replace_hyphens_with_underscores_in_dict_keys(dictionary)
Normalize ==
    /\ final_dict = PyNone
    /\ final_dict' =
           PyDict(_replace_hyphens_with_underscores_in_dict_keys(dictionary))
    /\ UNCHANGED <<dictionary, resolver_vars, vm_vars>>

(***************************************************************************)
(* Specifications: one session of the orchestrator, the resolver called    *)
(* twice, and the normaliser.                                              *)
(***************************************************************************)
Init == VmInit /\ ResolverIdle /\ NormIdle

Next ==
    \/ CreateVmImage
    \/ CreateVmImageFails
    \/ ImagesCreated
    \/ AddDevices
    \/ MakeRunner
    \/ Start
    \/ StartFails
    \/ Mount
    \/ MountFails
    \/ Mounted
    \/ ConnectSsh
    \/ ConnectSshFails
    \/ SshWait
    \/ SshShutdown
    \/ SshShutdownFails
    \/ GraceWait
    \/ GraceWaitFails
    \/ QemuWait

Spec == Init /\ [][Next]_vars

ResolverNext ==
    \/ Resolve
    \/ ResolveAgainSameMapping
    \/ ResolveAgainEqualInput

ResolverSpecInit == ResolverInit /\ NormIdle /\ VmIdle
SpecResolver == ResolverSpecInit /\ [][ResolverNext]_vars

NormNext == Normalize

NormSpecInit == NormInit /\ ResolverIdle /\ VmIdle
SpecNormalize == NormSpecInit /\ [][NormNext]_vars

(***************************************************************************)
(* What the claims speak about, stated from the configuration and the      *)
(* calls made, not from the orchestrator's own predicates.                 *)
(***************************************************************************)
ConsoleRequested ==
    \/ Attr(config, ssh_console) = PyTrue
    \/ Attr(config, ssh_with_serial) = PyTrue
    \/ Attr(config, ssh_command) # PyNone
SharedRequested  == Len(Attr(config, shared_folder).v) > 0
InteractiveRequested == ConsoleRequested \/ SharedRequested
PrepareOnly      == Attr(config, prepare_only) = PyTrue

CallsOf(fn)  == SelectSeq(calls, LAMBDA c : c.t = fn)
Composed     == added_qemu_args # PyNone
Started      == NumCalls("start") > 0 /\ qemu_runner # PyNone
               /\ qemu_runner.v.started

\* the four forwarding arguments, for host port p, at position i of args
ForwardAt(args, i, p) ==
    /\ i + 3 <= Len(args)
    /\ args[i] = PyStr(<<"-netdev">>)
    /\ args[i + 1] = PyStr(<<"user,id=transient-sshdev,hostfwd=tcp::",
                            ToString(p), "-:22">>)
    /\ args[i + 2] = PyStr(<<"-device">>)
    /\ args[i + 3] = PyStr(<<"e1000,netdev=transient-sshdev">>)
Ports == EphemeralPorts \cup {2222}
HasForward(args)   == \E i \in 1..Len(args), p \in Ports : ForwardAt(args, i, p)
HasNetdev(args)    == PyStr(<<"-netdev">>) \in Range(args)
HasNographic(args) == PyStr(<<"-nographic">>) \in Range(args)

\* C3: exit-code contract of run.  When ssh_console, ssh_with_serial or an
\* ssh_command is requested, the code run returns is the exit status of the
\* interactive connection (whatever the hypervisor's status is); otherwise
\* run waits for the hypervisor without a timeout and returns its status.
C3_ExitCodeContract ==
    (pc = "returned" /\ ~PrepareOnly) =>
        IF ConsoleRequested
        THEN /\ NumCalls("conn_wait") = 1
             /\ result = CallsOf("conn_wait")[1].v[1]
        ELSE /\ NumCalls("conn_wait") = 0
             /\ NumCalls("wait") = 1
             /\ CallsOf("wait")[1].v[1] = PyNone
             /\ result = CallsOf("wait")[1].v[2]

\* a bridged session returned the shell's status although the hypervisor
\* exited with another one
C3_Witness ==
    /\ pc = "returned" /\ ConsoleRequested /\ Started
    /\ qemu_runner.v.status.t = "int"
    /\ qemu_runner.v.status # CallsOf("conn_wait")[1].v[1]
    /\ result = CallsOf("conn_wait")[1].v[1]

\* C4: with prepare_only, run asks for every image in request order and
\* returns 0, and the session never composes arguments, allocates a port,
\* creates the remote-shell descriptor, starts the hypervisor, mounts a
\* folder or opens a remote-shell connection.
C4_PrepareOnlyEarlyExit ==
    PrepareOnly =>
        /\ pc \in {"create_images", "returned", "raised"}
        /\ \A i \in 1..Len(calls) : calls[i].t = "create_vm_image"
        /\ qemu_runner = PyNone /\ ssh_config = PyNone
        /\ added_qemu_args = PyNone
        /\ pc = "returned" =>
              /\ result = PyInt(0)
              /\ Len(calls) = Len(Attr(config, image).v)
              /\ \A i \in 1..Len(calls) :
                    /\ calls[i].v[1] = Attr(config, image).v[i]
                    /\ calls[i].v[3] = PyInt(i - 1)

\* Scenario C: ["base", "overlay"] with prepare_only returned 0
C4_Witness ==
    /\ PrepareOnly /\ pc = "returned" /\ result = PyInt(0)
    /\ Attr(config, image) = StrList(<<(<<"base">>), (<<"overlay">>)>>)
    /\ Len(vm_images) = 2

\* C5 as claimed: the composed arguments hold the forwarding arguments and
\* -nographic when any of ssh_console, ssh_with_serial, ssh_command or a
\* shared_folder spec is requested, and neither of them otherwise.
C5_AsClaimed ==
    Composed =>
        /\ InteractiveRequested =>
              HasForward(added_qemu_args.v) /\ HasNographic(added_qemu_args.v)
        /\ ~InteractiveRequested =>
              ~HasNetdev(added_qemu_args.v) /\ ~HasNographic(added_qemu_args.v)

\* C5 as amended: the composed arguments hold the forwarding arguments iff
\* any of ssh_console, ssh_with_serial, ssh_command or a shared_folder spec
\* is requested, and hold -nographic iff ssh_console, ssh_with_serial or an
\* ssh_command is requested: shared folders alone forward the port and keep
\* the display.
C5_ForwardAndDisplay ==
    Composed =>
        /\ HasForward(added_qemu_args.v) <=> InteractiveRequested
        /\ HasNetdev(added_qemu_args.v) <=> InteractiveRequested
        /\ HasNographic(added_qemu_args.v) <=> ConsoleRequested

\* shared folders alone: the port is forwarded and the display is kept
C5_Witness ==
    /\ Composed /\ SharedRequested /\ ~ConsoleRequested
    /\ HasForward(added_qemu_args.v) /\ ~HasNographic(added_qemu_args.v)

\* C6: the image store is asked for the images in request order, the i-th
\* request with ordinal i (from 0) and the session name, and the composed
\* arguments start with one -drive pair per image, in request order, each
\* naming the path the store returned for that request.
C6_ImageOrder ==
    LET names == Attr(config, image).v
        made  == CallsOf("create_vm_image")
    IN  /\ Len(made) <= Len(names)
        /\ SubSeq(calls, 1, Len(made)) = made
        /\ \A i \in 1..Len(made) :
              made[i].v = <<names[i], Attr(config, name), PyInt(i - 1)>>
        /\ \A i \in 1..Len(new_images) :
              /\ new_images[i].v.name = names[i]
              /\ new_images[i].v.idx = i - 1
        /\ Composed =>
              /\ Len(made) = Len(names)
              /\ vm_images = new_images
              /\ Len(added_qemu_args.v) >= 2 * Len(names)
              /\ \A i \in 1..Len(names) :
                    /\ added_qemu_args.v[2 * i - 1] = PyStr(<<"-drive">>)
                    /\ added_qemu_args.v[2 * i] =
                           PyStr(<<"file=">> \o new_images[i].v.path)
              /\ \A i \in (2 * Len(names) + 1)..Len(added_qemu_args.v) :
                    added_qemu_args.v[i] # PyStr(<<"-drive">>)

\* two different images were provisioned and attached
C6_Witness ==
    /\ Composed
    /\ Attr(config, image) = StrList(<<(<<"overlay">>), (<<"base">>)>>)
    /\ Len(added_qemu_args.v) >= 4

\* C9: at most one ephemeral port is allocated in a session and none when
\* ssh_port is configured; once the arguments are composed for a session
\* that requests an interactive feature, the port in use (the configured
\* one, or else the one allocated) is the port of the forward to guest port
\* 22 and the port of the remote-shell descriptor.
C9_PortConsistency ==
    LET allocated == CallsOf("allocate_random_port")
    IN  /\ Len(allocated) <= 1
        /\ Attr(config, ssh_port) # PyNone => Len(allocated) = 0
        /\ ~InteractiveRequested => Len(allocated) = 0
        /\ (Composed /\ InteractiveRequested) =>
              /\ Attr(config, ssh_port) = PyNone => Len(allocated) = 1
              /\ LET port == IF Attr(config, ssh_port) = PyNone
                             THEN allocated[1].v[1]
                             ELSE Attr(config, ssh_port)
                 IN  /\ ssh_config.t = "SshConfig"
                     /\ ssh_config.v.port = port
                     /\ \E i \in 1..Len(added_qemu_args.v) :
                           ForwardAt(added_qemu_args.v, i, port.v)
                     /\ \A i \in 1..Len(added_qemu_args.v), p \in Ports :
                           ForwardAt(added_qemu_args.v, i, p) => p = port.v

\* Scenario D: ssh_console without ssh_port; a port was allocated and is in
\* the forward and in the descriptor
C9_Witness ==
    /\ Composed /\ Attr(config, ssh_console) = PyTrue
    /\ Attr(config, ssh_port) = PyNone
    /\ NumCalls("allocate_random_port") = 1
    /\ ssh_config.v.port = CallsOf("allocate_random_port")[1].v[1]

\* the quiet and silenceable flags of the start calls
StartFlags == {<<c.v[2].v, c.v[3].v>> : c \in Range(CallsOf("start"))}

\* C10 as claimed: whenever any of ssh_console, ssh_with_serial, ssh_command
\* or a shared_folder spec is requested, the hypervisor is started
\* silenceable and not quiet if ssh_with_serial is requested, and quiet and
\* not silenceable otherwise.
C10_AsClaimed ==
    InteractiveRequested =>
        \A flags \in StartFlags :
            IF Attr(config, ssh_with_serial) = PyTrue
            THEN flags = <<FALSE, TRUE>>
            ELSE flags = <<TRUE, FALSE>>

\* C10 as amended: whenever ssh_console, ssh_with_serial or an ssh_command
\* is requested, the hypervisor is started silenceable and not quiet if
\* ssh_with_serial is requested, and quiet and not silenceable otherwise;
\* when none of the three is requested (shared folders alone included) it
\* is started neither quiet nor silenceable; never both.
C10_VisibilityPolicy ==
    /\ \A flags \in StartFlags :
          /\ flags # <<TRUE, TRUE>>
          /\ flags = IF ~ConsoleRequested THEN <<FALSE, FALSE>>
                     ELSE IF Attr(config, ssh_with_serial) = PyTrue
                     THEN <<FALSE, TRUE>>
                     ELSE <<TRUE, FALSE>>
    /\ qemu_runner # PyNone =>
          ~(qemu_runner.v.quiet /\ qemu_runner.v.silenceable)

\* a session with ssh_with_serial and ssh_console was started silenceable
C10_Witness ==
    /\ Started
    /\ Attr(config, ssh_with_serial) = PyTrue
    /\ Attr(config, ssh_console) = PyTrue
    /\ StartFlags = {<<FALSE, TRUE>>}

\* a call of fn is in the log before position i
CalledBefore(fn, i) == \E j \in 1..(i - 1) : calls[j].t = fn

\* C13: the console is silenced only after the interactive connection was
\* made and after the hypervisor was started; when the connection attempt
\* fails, silence is not called; and silence is called at most once.
C13_SilenceOrdering ==
    /\ NumCalls("silence") <= 1
    /\ \A i \in 1..Len(calls) :
          calls[i].t = "silence" =>
              /\ CalledBefore("connect_stdout", i)
              /\ CalledBefore("start", i)
              /\ Started
    /\ (/\ pc = "raised" /\ Len(calls) > 0
        /\ calls[Len(calls)].t = "connect_stdout")
       => NumCalls("silence") = 0
    /\ (Started /\ qemu_runner.v.silenced) => NumCalls("silence") = 1

\* the connection was made and the console silenced after it
C13_Witness ==
    /\ pc = "ssh_wait" /\ Started
    /\ NumCalls("silence") = 1
    /\ calls[Len(calls)].t = "silence"
    /\ calls[Len(calls) - 1].t = "connect_stdout"

\* the mount loop is over
MountsOver ==
    \/ pc \in {"connect_ssh", "ssh_wait", "ssh_shutdown", "grace_wait",
               "qemu_wait"}
    \/ pc = "returned" /\ ~PrepareOnly
    \/ NumCalls("connect_stdout") > 0

\* C14: the mounts made are those of the configured shared_folder specs, one
\* per spec and in their order, each after the start of the hypervisor and
\* before any remote-shell connection, each with the session's descriptor
\* and ssh_timeout; when the loop is over every spec has been mounted.
C14_MountsInOrder ==
    LET shared == Attr(config, shared_folder).v
        mounts == CallsOf("do_sshfs_mount")
    IN  /\ Len(mounts) <= Len(shared)
        /\ MountsOver => Len(mounts) = Len(shared)
        /\ \A i \in 1..Len(mounts) :
              LET parts == Split(shared[i].v, ":", <<>>)
              IN  /\ mounts[i].v[1] = Attr(config, ssh_timeout)
                  /\ mounts[i].v[2] = ssh_config
                  /\ ssh_config # PyNone
                  /\ mounts[i].v[3] = PyStr(AbsPath(parts[1]))
                  /\ mounts[i].v[4] = PyStr(parts[2])
        /\ \A i \in 1..Len(calls) :
              calls[i].t = "do_sshfs_mount" =>
                  /\ CalledBefore("start", i)
                  /\ ~CalledBefore("connect_stdout", i)
                  /\ ~CalledBefore("connect_piped", i)

\* two different folders were mounted, then the connection was opened
C14_Witness ==
    /\ Len(Attr(config, shared_folder).v) = 2
    /\ Attr(config, shared_folder).v[1] # Attr(config, shared_folder).v[2]
    /\ NumCalls("do_sshfs_mount") = 2
    /\ NumCalls("connect_stdout") = 1

\* C15: once the interactive connection has ended, one second connection is
\* opened, with a timeout of its own, and what it runs in the guest is the
\* shutdown command, never the user's ssh_command again; then run waits for
\* the hypervisor with a bounded timeout before it returns.
C15_AsClaimed ==
    (pc \in {"grace_wait", "returned"} /\ NumCalls("conn_wait") = 1) =>
        /\ NumCalls("connect_piped") = 1
        /\ \A i \in 1..Len(calls) :
              calls[i].t = "connect_piped" =>
                  /\ CalledBefore("conn_wait", i)
                  /\ calls[i].v[3] = PyInt(15)
                  /\ calls[i].v[5] = PyInt(15)
                  /\ SshClientRuns(calls[i].v[2], calls[i].v[4])
                         = PyStr(<<"sudo shutdown -h now">>)
        /\ pc = "returned" =>
              /\ calls[Len(calls)].t = "wait"
              /\ calls[Len(calls)].v[1] = PyInt(10)
              /\ calls[Len(calls) - 1].t = "connect_piped"

\* C16: once the exit status of the interactive connection is captured, run
\* ends by returning it, whatever happens in the shutdown connection and in
\* the wait for the hypervisor.
C16_AsClaimed ==
    (NumCalls("conn_wait") = 1 /\ pc \in {"returned", "raised"}) =>
        /\ pc = "returned"
        /\ result = CallsOf("conn_wait")[1].v[1]

\* a call of create_vm_image raised: it is in the log and gave no image
ProvisioningFailed ==
    pc = "raised" /\ NumCalls("create_vm_image") > Len(new_images)

\* C17: when a call of create_vm_image fails, run raises and returns no
\* code, the failed call is the last call of the session (no later image,
\* no port, no start, no mount, no connection), and neither arguments, nor
\* a descriptor, nor a hypervisor handle were made.
C17_ProvisioningFatal ==
    ProvisioningFailed =>
        /\ result = PyNone
        /\ \A i \in 1..Len(calls) : calls[i].t = "create_vm_image"
        /\ NumCalls("create_vm_image") = Len(new_images) + 1
        /\ NumCalls("create_vm_image") <= Len(Attr(config, image).v)
        /\ vm_images = <<>>
        /\ added_qemu_args = PyNone
        /\ ssh_config = PyNone /\ qemu_runner = PyNone

\* the first of two images failed in a session that asks for a console: the
\* second was never requested
C17_Witness ==
    /\ ProvisioningFailed
    /\ ConsoleRequested /\ ~PrepareOnly
    /\ Len(Attr(config, image).v) = 2
    /\ Len(calls) = 1

\* the pass-through arguments of the user: none when qemu_args is absent
UserArgs ==
    IF Attr(config, qemu_args) = PyNone THEN <<>> ELSE Attr(config, qemu_args).v

\* C19: in every session without prepare_only whose arguments were
\* synthesized, the hypervisor handle is made with the synthesized arguments
\* followed by the user's pass-through arguments in their order, and the
\* hypervisor is started with that list.
C19_AsClaimed ==
    (Composed /\ pc # "make_runner") =>
        /\ qemu_runner # PyNone
        /\ qemu_runner.v.args = added_qemu_args.v \o UserArgs
        /\ \A i \in 1..Len(calls) :
              calls[i].t = "start" =>
                  calls[i].v[1] = PyList(added_qemu_args.v \o UserArgs)

\* a remote-shell connection or a mount is about to be made
AboutToUseDescriptor ==
    \/ pc = "mount" /\ NumCalls("do_sshfs_mount")
                           < Len(Attr(config, shared_folder).v)
    \/ pc \in {"connect_ssh", "ssh_shutdown"}

\* C20: the descriptor exists exactly when an interactive feature is
\* requested and the session went on after provisioning (its arguments were
\* synthesized); so whenever a mount or a connection is about to be made or
\* was made, the descriptor and the hypervisor handle exist.
C20_DescriptorExists ==
    /\ (ssh_config # PyNone) <=> (InteractiveRequested /\ Composed)
    /\ AboutToUseDescriptor => (ssh_config # PyNone /\ qemu_runner # PyNone)
    /\ \A i \in 1..Len(calls) :
          calls[i].t \in {"do_sshfs_mount", "connect_stdout", "connect_piped"}
          => /\ ssh_config # PyNone /\ qemu_runner # PyNone
             /\ \E k \in 1..Len(calls[i].v) : calls[i].v[k] = ssh_config

\* shared folders alone: the descriptor was made and a mount is due
C20_Witness ==
    /\ pc = "mount" /\ AboutToUseDescriptor
    /\ SharedRequested /\ ~ConsoleRequested
    /\ ssh_config # PyNone /\ qemu_runner # PyNone

(***************************************************************************)
(* The resolver's claims.                                                  *)
(***************************************************************************)
\* a CLI value that is not an unset sentinel
ExplicitOnCli(val) == val \notin {PyNone, PyTuple(<<>>), PyFalse}

\* the same value; a tuple given on the CLI is a list once validated
SameContent(a, b) ==
    IF a.t = b.t THEN a = b
    ELSE {a.t, b.t} = {"list", "tuple"} /\ a.v = b.v

FileMerged == Truthy(Get(cli_input, config_opt))

\* what the file gives option n: its hyphenated key in [transient], and for
\* qemu_args the qemu-args of [qemu]; Absent when it gives nothing
FileSupplied(n) ==
    IF ~FileMerged \/ ~config_file.syntax_ok THEN Absent
    ELSE LET table == IF n = qemu_args
                      THEN Get(config_file.doc, <<"qemu">>).v
                      ELSE Get(config_file.doc, <<"transient">>).v
             key   == Replace(n, "_", "-")
         IN  IF Has(table, key) THEN Get(table, key) ELSE Absent

Resolved == rpc # "start" /\ ~first.raised

\* C1: in every merge of the CLI options with a configuration file, an
\* option whose CLI value is not an unset sentinel is in the resolved
\* configuration with its CLI value, whatever the file gives it; so the
\* file's qemu-args are the resolved qemu_args only when the CLI's are ().
C1_CliWins ==
    (Resolved /\ FileMerged) =>
        /\ \A f \in RunFields :
              ExplicitOnCli(Get(cli_input, f.name)) =>
                  /\ Has(first.value, f.name)
                  /\ SameContent(Get(first.value, f.name),
                                 Get(cli_input, f.name))
        /\ (/\ Has(first.value, qemu_args)
            /\ FileSupplied(qemu_args) # Absent
            /\ Get(first.value, qemu_args) = FileSupplied(qemu_args)
            /\ Len(FileSupplied(qemu_args).v) > 0)
           => Get(cli_input, qemu_args) = PyTuple(<<>>)

\* Scenario B: the file says ssh-user = "root", the CLI says alice
C1_Witness ==
    /\ Resolved /\ FileMerged
    /\ FileSupplied(ssh_user) = PyStr(<<"root">>)
    /\ Get(cli_input, ssh_user) = PyStr(<<"alice">>)
    /\ Get(first.value, ssh_user) = PyStr(<<"alice">>)

\* C2: an option the CLI leaves unset resolves to the value the file gives
\* it, and, when the file gives none (or no file is named), to the schema's
\* default if the schema has one.
C2_FileThenDefault ==
    Resolved =>
        \A f \in RunFields :
            ~ExplicitOnCli(Get(cli_input, f.name)) =>
                IF FileSupplied(f.name) # Absent
                THEN /\ Has(first.value, f.name)
                     /\ SameContent(Get(first.value, f.name),
                                    FileSupplied(f.name))
                ELSE f.has_missing =>
                     /\ Has(first.value, f.name)
                     /\ Get(first.value, f.name) = f.missing

\* Scenario A: the file names the session, the CLI does not; and ssh_user,
\* which neither gives, is the default
C2_Witness ==
    /\ Resolved /\ FileMerged
    /\ Get(cli_input, name) = PyNone
    /\ FileSupplied(name) = PyStr(<<"root">>)
    /\ Get(first.value, name) = PyStr(<<"root">>)
    /\ Get(first.value, ssh_user) = PyStr(<<"vagrant">>)

\* C7: a second resolution of the same CLI input and file gives what the
\* first gave, when it is handed an equal mapping and when it is handed the
\* very mapping the first call wrote into.
C7_Idempotent ==
    rpc \in {"twice_same", "twice_equal"} => second = first

\* the first call wrote file values into the mapping, and the second call,
\* given that mapping, resolved to the same configuration
C7_Witness ==
    /\ rpc = "twice_same" /\ ~first.raised
    /\ cli_args # cli_input
    /\ Get(cli_input, qemu_args) # PyTuple(<<>>)
    /\ second = first

\* C18: the pre-load hook of the validation removes from the mapping it is
\* given every option whose value is None, () or False and keeps every other
\* option with its value; an option it removed resolves to the schema's
\* default, or to nothing when the schema has none, and one it kept resolves
\* to its value.
C18_StripUnset ==
    (rpc = "once" /\ config_without_unset_options # PyNone) =>
        LET kept == config_without_unset_options.v
        IN  /\ \A i \in 1..Len(kept) :
                  \E j \in 1..Len(cli_args) : cli_args[j] = kept[i]
            /\ \A j \in 1..Len(cli_args) :
                  LET option == cli_args[j][1]
                      val    == cli_args[j][2]
                      f      == FieldOf(_TransientRunConfigSchema, option)
                  IN  IF ExplicitOnCli(val)
                      THEN /\ Has(kept, option) /\ Get(kept, option) = val
                           /\ Resolved =>
                                 /\ Has(first.value, option)
                                 /\ SameContent(Get(first.value, option), val)
                      ELSE /\ ~Has(kept, option)
                           /\ Resolved =>
                                 IF f.has_missing
                                 THEN /\ Has(first.value, option)
                                      /\ Get(first.value, option) = f.missing
                                 ELSE ~Has(first.value, option)

\* the CLI gave copy_timeout = 0, which is kept, and no ssh_port, which is
\* removed and has no default
C18_Witness ==
    /\ rpc = "once" /\ Resolved /\ config_without_unset_options # PyNone
    /\ Get(cli_input, copy_timeout) = PyInt(0)
    /\ Get(config_without_unset_options.v, copy_timeout) = PyInt(0)
    /\ Get(cli_args, ssh_port) = PyNone
    /\ ~Has(config_without_unset_options.v, ssh_port)
    /\ ~Has(first.value, ssh_port)

\* C11: when the file the CLI names is not a valid TOML document, the
\* resolution fails with ConfigFileParsingError and yields no configuration.
C11_AsClaimed ==
    (rpc # "start" /\ FileMerged /\ ~config_file.syntax_ok) =>
        /\ first.raised
        /\ first.exc = "ConfigFileParsingError"

\* the options of the file that fail validation, under the schema's names:
\* those of the [transient] table, once its keys are rewritten, whose value
\* is kept by the pre-load hook and is not of the field's type
FileInvalidOptions ==
    IF ~FileMerged \/ ~config_file.syntax_ok
       \/ FileSupplied(qemu_args) = Absent
    THEN {}
    ELSE LET given == _replace_hyphens_with_underscores_in_dict_keys(
                          Get(config_file.doc, <<"transient">>).v)
         IN  {given[i][1] : i \in
                {j \in 1..Len(given) :
                    /\ _option_was_set_in_cli(given[j][2])
                    /\ \/ given[j][1] \notin FieldNames(_TransientRunConfigSchema)
                       \/ ~FieldValid(FieldOf(_TransientRunConfigSchema,
                                              given[j][1]), given[j][2])}}

\* the lines of the file that hold the text
LinesHolding(text) ==
    {n \in 1..Len(config_file.lines) : Contains(config_file.lines[n], text)}

\* a logged message that cites line n for the option
CitesLine(msg, n, option) ==
    msg = <<"Invalid option on line ", ToString(n),
            " in configuration file: ">> \o option

\* a logged message about invalid file options that cites no line
CitesNoLine(msg) ==
    /\ Len(msg) > 0
    /\ msg[1] = "Invalid option in configuration file: "

\* C12: when options of the file fail validation, the resolution fails with
\* ConfigFileOptionError, and for each of them the log cites the first line
\* (counted from 1) that holds its hyphenated name and no other line, or,
\* when no line holds it, reports the error without a line number.
C12_LineDiagnostics ==
    (rpc # "start" /\ FileInvalidOptions # {}) =>
        /\ first.raised
        /\ first.exc = "ConfigFileOptionError"
        /\ \A option \in FileInvalidOptions :
              LET hyphenated == Replace(option, "_", "-")
                  hits == LinesHolding(hyphenated)
              IN  IF hits = {}
                  THEN /\ \E i \in 1..Len(logged) : CitesNoLine(logged[i])
                       /\ \A i \in 1..Len(logged), n \in 0..Len(config_file.lines) :
                             ~CitesLine(logged[i], n, hyphenated)
                  ELSE \A n \in 0..Len(config_file.lines) :
                          (\E i \in 1..Len(logged) :
                               CitesLine(logged[i], n, hyphenated))
                          <=> (n \in hits /\ \A k \in hits : n <= k)

\* ssh-port is invalid; a comment on line 1 names it and its key is on
\* line 3: line 1 is cited
C12_Witness ==
    /\ rpc = "once"
    /\ first.raised /\ first.exc = "ConfigFileOptionError"
    /\ ssh_port \in FileInvalidOptions
    /\ LinesHolding(<<"ssh", "-", "port">>) = {1, 3}
    /\ \E i \in 1..Len(logged) :
          CitesLine(logged[i], 1, <<"ssh", "-", "port">>)

(***************************************************************************)
(* The normaliser's claim.                                                 *)
(***************************************************************************)
HasHyphen(k) == "-" \in Range(k)

RECURSIVE NoHyphenKey(_)
\* no key of this value, of its sub-tables or of the tables in its arrays
\* holds a hyphen
NoHyphenKey(val) ==
    CASE val.t = "dict" ->
             \A i \in 1..Len(val.v) :
                 ~HasHyphen(val.v[i][1]) /\ NoHyphenKey(val.v[i][2])
      [] val.t = "list" -> \A i \in 1..Len(val.v) : NoHyphenKey(val.v[i])
      [] OTHER -> TRUE

RECURSIVE Rewritten(_, _)
\* out is val with the keys of its tables rewritten and nothing else changed
Rewritten(val, out) ==
    CASE val.t = "dict" ->
             /\ out.t = "dict"
             /\ Keys(out.v) = {Replace(k, "-", "_") : k \in Keys(val.v)}
             /\ \A i \in 1..Len(out.v) :
                   \E j \in 1..Len(val.v) :
                       /\ Replace(val.v[j][1], "-", "_") = out.v[i][1]
                       /\ Rewritten(val.v[j][2], out.v[i][2])
      [] val.t = "list" ->
             /\ out.t = "list" /\ Len(out.v) = Len(val.v)
             /\ \A i \in 1..Len(val.v) : Rewritten(val.v[i], out.v[i])
      [] OTHER -> out = val

====
